---- MODULE Spec2Model ----
(***************************************************************************)
(* The WorldWeatherOnline client (package wwo): the WWO client value, the  *)
(* seven Get operations built on fetch, and the decoding of the payload    *)
(* into the report types of the package.                                   *)
(*                                                                         *)
(* Text is a sequence of tokens: a token is one character ("2", "-", " ")  *)
(* or, for free text that the code only copies, one word ("London").       *)
(* A payload is the sequence of the leaf elements of the XML document in   *)
(* document order, each with the path of element names below the root and  *)
(* its character data; a break in the markup is a leaf of its own.         *)
(***************************************************************************)
EXTENDS Integers, Sequences, FiniteSets, TLC

VARIABLES
    w,            \* the WWO client: [Key, Insecure]
    heap,         \* the map objects of the callers: map id -> map[string]string
    pc,           \* per caller: position in the Get operation
    call,         \* per caller: the arguments of the call [op, location, opt]
    text,         \* per caller: local text  (<<>> is nil, <<p>> a payload)
    err,          \* per caller: local err   (<<>> is nil, <<e>> an error)
    o,            \* per caller: local o     (<<>> is nil, <<r>> a report)
    ret,          \* per caller: what the call returned (<<>> before it returns)
    resp,         \* per caller: the http response whose body is still to be read
    wire,         \* per caller: the requests this call has issued, in order
    entry,        \* per caller: the content of opt when the call was entered
    transportErr, \* per caller: the error the transport raised in this call
    ndecode,      \* per caller: invocations of xml.Unmarshal in this call
    ncalls,       \* per caller: calls begun so far
    nsent,        \* requests issued so far by all calls
    codec         \* an element handed to UnmarshalXML of Date, Time12 or
                  \* TimeHMM: its text, the value stored, the error, String

vars == <<w, heap, pc, call, text, err, o, ret, resp, wire, entry,
          transportErr, ndecode, ncalls, nsent, codec>>

\* the variables of the client and its callers
clientVars == <<w, heap, pc, call, text, err, o, ret, resp, wire, entry,
                transportErr, ndecode, ncalls, nsent>>

---------------------------------------------------------------------------
(* Bounds and input sets *)

MaxCalls == 2        \* calls one caller makes
MaxOpts == 1         \* entries of the options map a caller starts with

Callers == {"c1", "c2"}
SeqCallers == {"c1"}
NilMap == "nil"
MapOf(c) == c

Ops == {"GetLocal", "GetMarine", "GetSki", "GetPastLocal", "GetPastMarine",
        "GetSearch", "GetTimeZone"}

Locations == {"London", "Paris"}
APIKey == "0123abcd"

\* what a caller may have put in its options map before the call
OptionKeys == {"q", "date_format", "key", "format", "fx"}
OptionVal == [k \in OptionKeys |->
    CASE k = "q" -> "Rome"
      [] k = "date_format" -> "iso8601"
      [] k = "key" -> "other-key"
      [] k = "format" -> "json"
      [] k = "fx" -> "no"]
OptionMaps == {[k \in D |-> OptionVal[k]] :
                 D \in {S \in SUBSET OptionKeys : Cardinality(S) <= MaxOpts}}

---------------------------------------------------------------------------
(* strconv: decimal text to integers *)

DigitVal == [d \in {"0", "1", "2", "3", "4", "5", "6", "7", "8", "9"} |->
    CASE d = "0" -> 0 [] d = "1" -> 1 [] d = "2" -> 2 [] d = "3" -> 3
      [] d = "4" -> 4 [] d = "5" -> 5 [] d = "6" -> 6 [] d = "7" -> 7
      [] d = "8" -> 8 [] d = "9" -> 9]

IsDigits(s) == Len(s) > 0 /\ \A i \in 1..Len(s) : s[i] \in DOMAIN DigitVal

RECURSIVE DecVal(_)
DecVal(s) == IF s = <<>> THEN 0
             ELSE DecVal(SubSeq(s, 1, Len(s) - 1)) * 10 + DigitVal[s[Len(s)]]

\* 2^bits is beyond the model's integers for bits > 30; text of the bounded
\* length used here stays far below it, so the range test is made for the
\* narrow widths only.
Narrow(bits) == bits <= 30

NumError == [type |-> "strconv.NumError", text |-> <<"invalid", "syntax">>]
RangeError == [type |-> "strconv.NumError", text |-> <<"out", "of", "range">>]

\* strconv.ParseUint(s, 10, bits): digits only, no sign
ParseUint(s, bits) ==
    IF ~IsDigits(s) THEN [val |-> 0, err |-> <<NumError>>]
    ELSE IF Narrow(bits) /\ DecVal(s) >= 2 ^ bits
         THEN [val |-> 2 ^ bits - 1, err |-> <<RangeError>>]
         ELSE [val |-> DecVal(s), err |-> <<>>]

\* strconv.ParseInt(s, 10, bits): an optional sign, then digits
ParseInt(s, bits) ==
    LET signed == Len(s) > 0 /\ s[1] \in {"+", "-"}
        neg == Len(s) > 0 /\ s[1] = "-"
        digits == IF signed THEN Tail(s) ELSE s
    IN IF ~IsDigits(digits) THEN [val |-> 0, err |-> <<NumError>>]
       ELSE IF Narrow(bits) /\ ~neg /\ DecVal(digits) >= 2 ^ (bits - 1)
            THEN [val |-> 2 ^ (bits - 1) - 1, err |-> <<RangeError>>]
       ELSE IF Narrow(bits) /\ neg /\ DecVal(digits) > 2 ^ (bits - 1)
            THEN [val |-> 0 - 2 ^ (bits - 1), err |-> <<RangeError>>]
       ELSE [val |-> IF neg THEN 0 - DecVal(digits) ELSE DecVal(digits),
             err |-> <<>>]

\* strconv.ParseFloat(s, 64) on decimal text: an optional sign, digits, and
\* an optional point followed by digits; the value is kept in thousandths,
\* which is exact for the texts of up to three decimals used here
Thousandths(frac) == DecVal(SubSeq(frac \o <<"0", "0", "0">>, 1, 3))
ParseFloat(s) ==
    LET signed == Len(s) > 0 /\ s[1] \in {"+", "-"}
        neg == Len(s) > 0 /\ s[1] = "-"
        body == IF signed THEN Tail(s) ELSE s
        dots == {i \in 1..Len(body) : body[i] = "."}
        whole == IF dots = {} THEN body
                 ELSE SubSeq(body, 1, (CHOOSE i \in dots : TRUE) - 1)
        frac == IF dots = {} THEN <<>>
                ELSE SubSeq(body, (CHOOSE i \in dots : TRUE) + 1, Len(body))
        ok == /\ Cardinality(dots) <= 1
              /\ whole = <<>> \/ IsDigits(whole)
              /\ frac = <<>> \/ IsDigits(frac)
              /\ whole # <<>> \/ frac # <<>>
        mag == DecVal(whole) * 1000 + Thousandths(frac)
    IN IF ~ok THEN [val |-> 0, err |-> <<NumError>>]
       ELSE [val |-> IF neg THEN 0 - mag ELSE mag, err |-> <<>>]

RECURSIVE TrimLeft(_)
TrimLeft(s) == IF s # <<>> /\ s[1] = " " THEN TrimLeft(Tail(s)) ELSE s
RECURSIVE TrimRight(_)
TrimRight(s) == IF s # <<>> /\ s[Len(s)] = " "
                THEN TrimRight(SubSeq(s, 1, Len(s) - 1)) ELSE s
\* strings.TrimSpace
TrimSpace(s) == TrimRight(TrimLeft(s))

IntSize == 64    \* bits of int and uint on the 64-bit builds

---------------------------------------------------------------------------
(* package time, as far as Date, Time12 and TimeHMM use it.  A string is   *)
(* the sequence of its characters.  A Time is the count of whole minutes   *)
(* since January 1, year 1, 00:00 UTC (the zero Time) together with an     *)
(* offset in nanoseconds; a Duration has the same two parts.  The offset   *)
(* is 0 except where the code stores the duration of -1 nanosecond.        *)

Duration(m, n) == [min |-> m, ns |-> n]
ZeroTime == [min |-> 0, ns |-> 0]                     \* time.Time{}
Add(t, d) == [min |-> t.min + d.min, ns |-> t.ns + d.ns]
Sub(t, u) == Duration(t.min - u.min, t.ns - u.ns)

ParseError == [type |-> "time.ParseError", text |-> <<"parsing", "time">>]

isLeap(year) == year % 4 = 0 /\ (year % 100 # 0 \/ year % 400 = 0)
daysBefore == <<0, 31, 59, 90, 120, 151, 181, 212, 243, 273, 304, 334, 365>>
daysIn(month, year) ==
    IF month = 2 /\ isLeap(year) THEN 29
    ELSE daysBefore[month + 1] - daysBefore[month]

\* days from January 1, year 1 to January 1 of the year
daysSinceEpoch(year) ==
    LET y == year - 1
    IN 365 * y + (y \div 4) - (y \div 100) + (y \div 400)

\* time.Date(year, month, day, hour, min, 0, 0, time.UTC)
Date(year, month, day, hour, min) ==
    LET d == daysSinceEpoch(year) + daysBefore[month]
             + (IF isLeap(year) /\ month >= 3 THEN 1 ELSE 0) + day - 1
    IN [min |-> (d * 24 + hour) * 60 + min, ns |-> 0]

\* the whole minutes of t, rounded towards the past
absMinutes(t) == IF t.ns < 0 THEN t.min - 1 ELSE t.min

\* Time.Clock: hour and minute of the day
Clock(t) == LET m == absMinutes(t) % (24 * 60)
            IN [hour |-> m \div 60, min |-> m % 60]

\* Time.Date: year, month and day, by cycles of 400, 100, 4 and 1 years
absDate(t) ==
    LET d0 == absMinutes(t) \div (24 * 60)
        n400 == d0 \div 146097
        d1 == d0 - 146097 * n400
        q100 == d1 \div 36524
        n100 == IF q100 = 4 THEN 3 ELSE q100
        d2 == d1 - 36524 * n100
        n4 == d2 \div 1461
        d3 == d2 - 1461 * n4
        q1 == d3 \div 365
        n1 == IF q1 = 4 THEN 3 ELSE q1
        yday == d3 - 365 * n1
        year == 1 + 400 * n400 + 100 * n100 + 4 * n4 + n1
        leapDay == isLeap(year) /\ yday = 31 + 29 - 1
        day == IF isLeap(year) /\ yday > 31 + 29 - 1 THEN yday - 1 ELSE yday
        month == CHOOSE m \in 1..12 : daysBefore[m] <= day /\ day < daysBefore[m + 1]
    IN IF leapDay THEN [year |-> year, month |-> 2, day |-> 29]
       ELSE [year |-> year, month |-> month, day |-> day - daysBefore[month] + 1]

\* the layouts the code uses, by their chunks
LayoutDate == <<"2006", "-", "01", "-", "02">>
LayoutKitchen12 == <<"3", ":", "04", " ", "PM">>
Layout24 == <<"15", ":", "04">>

isDigit(s, i) == i <= Len(s) /\ s[i] \in DOMAIN DigitVal

\* getnum: one or two digits; exactly two when fixed
getnum(s, fixed) ==
    IF ~isDigit(s, 1) THEN [ok |-> FALSE, n |-> 0, rest |-> s]
    ELSE IF ~isDigit(s, 2)
         THEN IF fixed THEN [ok |-> FALSE, n |-> 0, rest |-> s]
              ELSE [ok |-> TRUE, n |-> DigitVal[s[1]], rest |-> Tail(s)]
    ELSE [ok |-> TRUE, n |-> DigitVal[s[1]] * 10 + DigitVal[s[2]],
          rest |-> SubSeq(s, 3, Len(s))]

\* skip: a literal of the layout; a space stands for any run of spaces
skip(value, c) ==
    IF c = " "
    THEN IF value # <<>> /\ value[1] # " "
         THEN [ok |-> FALSE, rest |-> value]
         ELSE [ok |-> TRUE, rest |-> TrimLeft(value)]
    ELSE IF value = <<>> \/ value[1] # c
         THEN [ok |-> FALSE, rest |-> value]
         ELSE [ok |-> TRUE, rest |-> Tail(value)]

\* what Parse has read so far; the fields a layout leaves out keep these
ParseStart == [year |-> 0, month |-> 1, day |-> 1, hour |-> 0, min |-> 0,
               amSet |-> FALSE, pmSet |-> FALSE]

\* one chunk of the layout consumes the front of the value; two, any and
\* lit are what getnum (fixed or not) and skip make of the value
chunk(c, value, st, two, any, lit) ==
    CASE c = "2006" ->
           IF Len(value) < 4 \/ ~IsDigits(SubSeq(value, 1, 4))
           THEN [ok |-> FALSE, rest |-> value, st |-> st]
           ELSE [ok |-> TRUE, rest |-> SubSeq(value, 5, Len(value)),
                 st |-> [st EXCEPT !.year = DecVal(SubSeq(value, 1, 4))]]
      [] c = "01" ->
           [ok |-> two.ok /\ 0 < two.n /\ two.n <= 12, rest |-> two.rest,
            st |-> [st EXCEPT !.month = two.n]]
      [] c = "02" ->
           [ok |-> two.ok, rest |-> two.rest, st |-> [st EXCEPT !.day = two.n]]
      [] c = "3" ->
           [ok |-> any.ok /\ any.n <= 12, rest |-> any.rest,
            st |-> [st EXCEPT !.hour = any.n]]
      [] c = "04" ->
           [ok |-> two.ok /\ two.n < 60, rest |-> two.rest,
            st |-> [st EXCEPT !.min = two.n]]
      [] c = "PM" ->
           IF Len(value) >= 2 /\ SubSeq(value, 1, 2) = <<"P", "M">>
           THEN [ok |-> TRUE, rest |-> SubSeq(value, 3, Len(value)),
                 st |-> [st EXCEPT !.pmSet = TRUE]]
           ELSE IF Len(value) >= 2 /\ SubSeq(value, 1, 2) = <<"A", "M">>
           THEN [ok |-> TRUE, rest |-> SubSeq(value, 3, Len(value)),
                 st |-> [st EXCEPT !.amSet = TRUE]]
           ELSE [ok |-> FALSE, rest |-> value, st |-> st]
      [] OTHER ->
           [ok |-> lit.ok, rest |-> lit.rest, st |-> st]

parseChunk(c, value, st) ==
    chunk(c, value, st, getnum(value, TRUE), getnum(value, FALSE), skip(value, c))

\* the chunks of the layout consume the value from left to right; text
\* left over after the last chunk is an error
RECURSIVE parseChunks(_, _, _, _)
parseChunks(layout, i, value, st) ==
    IF i > Len(layout) THEN [ok |-> value = <<>>, st |-> st]
    ELSE LET r == parseChunk(layout[i], value, st)
         IN IF ~r.ok THEN [ok |-> FALSE, st |-> st]
            ELSE parseChunks(layout, i + 1, r.rest, r.st)

\* the time read, with the given hour of the day; the zero Time and an
\* error when the value did not fit the layout or names no day of the
\* calendar
parsed(r, hour) ==
    IF ~r.ok \/ r.st.day < 1 \/ r.st.day > daysIn(r.st.month, r.st.year)
    THEN [t |-> ZeroTime, err |-> <<ParseError>>]
    ELSE [t |-> Date(r.st.year, r.st.month, r.st.day, hour, r.st.min),
          err |-> <<>>]

\* the hour of the day: 12 AM is 0, a PM hour below 12 is 12 more
hourOfDay(st) ==
    IF st.pmSet /\ st.hour < 12 THEN st.hour + 12
    ELSE IF st.amSet /\ st.hour = 12 THEN 0
    ELSE st.hour

parsedOf(r) == parsed(r, hourOfDay(r.st))
parsedAsWritten(r) == parsed(r, r.st.hour)

\* a variant that reads the hour as written, whatever AM or PM says
ParseHourAsWritten(layout, value) ==
    parsedAsWritten(parseChunks(layout, 1, value, ParseStart))

\* time.Parse(layout, value)
Parse(layout, value) == parsedOf(parseChunks(layout, 1, value, ParseStart))

\* appendInt: the decimal digits of n >= 0, zero-padded to the width
RECURSIVE appendInt(_, _)
appendInt(n, width) ==
    LET d == CHOOSE c \in DOMAIN DigitVal : DigitVal[c] = n % 10
    IN IF n < 10 /\ width <= 1 THEN <<d>>
       ELSE Append(appendInt(n \div 10, width - 1), d)

\* Time.Format(layout)
RECURSIVE Format(_, _)
Format(t, layout) ==
    IF layout = <<>> THEN <<>>
    ELSE LET c == Head(layout)
             s == CASE c = "2006" -> appendInt(absDate(t).year, 4)
                    [] c = "01" -> appendInt(absDate(t).month, 2)
                    [] c = "02" -> appendInt(absDate(t).day, 2)
                    [] c = "15" -> appendInt(Clock(t).hour, 2)
                    [] c = "04" -> appendInt(Clock(t).min, 2)
                    [] OTHER -> <<c>>
         IN s \o Format(t, Tail(layout))

\* strings.HasPrefix
HasPrefix(s, prefix) ==
    Len(s) >= Len(prefix) /\ SubSeq(s, 1, Len(prefix)) = prefix

---------------------------------------------------------------------------
(* Date, Time12 and TimeHMM: what UnmarshalXML stores for the character   *)
(* data of the element, the error it returns, and String                   *)

DateUnmarshalXML(content) ==
    LET r == Parse(LayoutDate, content)
    IN [val |-> r.t, err |-> r.err]

\* a variant that prints the month and the day of the month exchanged
DateStringDayFirst(t) == Format(t, <<"2006", "-", "02", "-", "01">>)

DateString(t) == Format(t, LayoutDate)

\* a variant that treats "No ..." like any other text
Time12UnmarshalXMLNoSentinel(content) ==
    LET r == Parse(LayoutKitchen12, content)
    IN [val |-> Sub(r.t, ZeroTime), err |-> r.err]

Time12UnmarshalXML(content) ==
    IF HasPrefix(content, <<"N", "o", " ">>)
    THEN [val |-> Duration(0, -1), err |-> <<>>]
    ELSE LET r == Parse(LayoutKitchen12, content)
         IN [val |-> Sub(r.t, ZeroTime), err |-> r.err]

Time12String(t) == Format(Add(ZeroTime, t), Layout24)

\* a variant that takes sixty, not a hundred, as the weight of the hours
TimeHMMUnmarshalXMLSixty(content) ==
    LET r == ParseUint(content, 12)
    IN [val |-> Duration((r.val \div 60) * 60 + (r.val % 60), 0), err |-> r.err]

\* u/100 hours and u%100 minutes, stored whether or not ParseUint failed
TimeHMMUnmarshalXML(content) ==
    LET r == ParseUint(content, 12)
        h == r.val \div 100
        m == r.val % 100
    IN [val |-> Duration((h * 60) + m, 0), err |-> r.err]

TimeHMMString(t) == Format(Add(ZeroTime, t), Layout24)

---------------------------------------------------------------------------
(* The report types: for each field of a struct, the element its tag names *)
(* and its Go type.  A struct field of struct type contributes the fields  *)
(* of that struct, their names and tags prefixed; an embedded struct       *)
(* contributes its fields under its own name with their tags unchanged.    *)
(* Of the many plain fields the types declare, the tables keep those that  *)
(* the payloads of this model carry.                                       *)

Field(tag, kind) == [tag |-> tag, kind |-> kind]

Prefixed(name, sep, S) ==
    LET E == {<<name \o "." \o g, [S[g] EXCEPT !.tag = sep \o @]>> : g \in DOMAIN S}
    IN [f \in {e[1] : e \in E} |-> (CHOOSE e \in E : e[1] = f)[2]]
Struct(name, tag, S) == Prefixed(name, tag \o ">", S)
Embedded(name, S) == Prefixed(name, "", S)

Request ==
    "Query" :> Field("query", "string") @@ "Type" :> Field("type", "string")

Area ==
    "Country" :> Field("country", "string")
    @@ "Name" :> Field("areaName", "string")
    @@ "Population" :> Field("population", "uint")
    @@ "Latitude" :> Field("latitude", "float64")

\* the fields of own, and those fields of an embedded struct whose element
\* no field of own names: of two fields naming one element, the shallower
\* one is kept
Shadow(own, emb) ==
    LET kept == {g \in DOMAIN emb : \A f \in DOMAIN own : own[f].tag # emb[g].tag}
    IN own @@ [g \in kept |-> emb[g]]

Condition ==
    "Time" :> Field("time", "TimeHMM")
    @@ "FeelsLike" :> Field("FeelsLikeC", "int")
    @@ "Humidity" :> Field("humidity", "uint")
    @@ "Pressure" :> Field("pressure", "uint")
    @@ "Temp" :> Field("tempC", "int")
    @@ "TempF" :> Field("tempF", "int")
    @@ "Visibility" :> Field("visibility", "uint")
    @@ "WindDir" :> Field("winddirDegree", "uint")
    @@ "WindDirCompass" :> Field("winddir16Point", "string")
    @@ "WindSpeed" :> Field("windspeedKmph", "uint")

ForecastCondition == Embedded("Condition", Condition)

MarineCondition ==
    Embedded("Condition", Condition)
    @@ "WaterTemp_F" :> Field("waterTemp_F", "int")

\* SkiCondition does not embed Condition: its samples carry no time
SkiCondition ==
    "Humidity" :> Field("humidity", "uint")
    @@ "Pressure" :> Field("pressure", "uint")
    @@ "Visibility" :> Field("visibility", "uint")

\* a variant whose MaxTempF names the Celsius element
TempRangeOneElement ==
    "MaxTemp" :> Field("maxtempC", "int")
    @@ "MaxTempF" :> Field("maxtempC", "int")
    @@ "MinTemp" :> Field("mintempC", "int")
    @@ "MinTempF" :> Field("mintempF", "int")

TempRange ==
    "MaxTemp" :> Field("maxtempC", "int")
    @@ "MaxTempF" :> Field("maxtempF", "int")
    @@ "MinTemp" :> Field("mintempC", "int")
    @@ "MinTempF" :> Field("mintempF", "int")

Weather ==
    Embedded("TempRange", TempRange)
    @@ "Date" :> Field("date", "Date")
    @@ "UVIndex" :> Field("uvIndex", "uint")
    @@ "SunHour" :> Field("sunHour", "float64")
    @@ "Condition" :> Field("hourly", "[]Condition")

ForecastWeather ==
    Shadow("Condition" :> Field("hourly", "[]ForecastCondition"),
           Embedded("Weather", Weather))

MarineWeather ==
    Shadow("Condition" :> Field("hourly", "[]MarineCondition"),
           Embedded("Weather", Weather))

SkiWeather ==
    Shadow("ChanceSnow" :> Field("chanceofsnow", "uint")
           @@ "Condition" :> Field("hourly", "[]SkiCondition"),
           Embedded("Weather", Weather))

\* a variant with the tag of Humidity misspelt
CurrentConditionMistagged ==
    Embedded("Condition",
             [Condition EXCEPT !["Humidity"] = Field("Humidity", "uint")])
    @@ "TempF" :> Field("temp_F", "int")
    @@ "Temp" :> Field("temp_C", "int")

CurrentCondition ==
    Embedded("Condition", Condition)
    @@ "TempF" :> Field("temp_F", "int")
    @@ "Temp" :> Field("temp_C", "int")

Local ==
    Struct("Area", "nearest_area", Area)
    @@ Struct("Current", "current_condition", CurrentCondition)
    @@ Struct("Request", "request", Request)
    @@ "Weather" :> Field("weather", "[]ForecastWeather")
    @@ "Error" :> Field("error>msg", "*string")

Marine ==
    Struct("Request", "request", Request)
    @@ Struct("Area", "nearest_area", Area)
    @@ "Weather" :> Field("weather", "[]MarineWeather")
    @@ "Error" :> Field("error>msg", "*string")

PastLocal ==
    Struct("Request", "request", Request)
    @@ Struct("Area", "nearest_area", Area)
    @@ "Weather" :> Field("weather", "[]Weather")
    @@ "Error" :> Field("error>msg", "*string")

PastMarine == Marine

Ski ==
    Struct("Request", "request", Request)
    @@ Struct("Area", "nearest_area", Area)
    @@ "Weather" :> Field("weather", "[]SkiWeather")
    @@ "Error" :> Field("error>msg", "*string")

TimeZone ==
    Struct("Request", "request", Request)
    @@ Struct("Area", "nearest_area", Area)
    @@ "Error" :> Field("error>msg", "*string")

\* Search.Area is a list of areas, one per result element; the model keeps
\* the name of each
Search ==
    "Area" :> Field("result>areaName", "[]Area")
    @@ "Error" :> Field("error>msg", "*string")

\* the struct a slice of structs holds; every element of the payload with
\* the field's tag adds one
ElemType(kind) ==
    CASE kind = "[]Weather" -> Weather
      [] kind = "[]ForecastWeather" -> ForecastWeather
      [] kind = "[]MarineWeather" -> MarineWeather
      [] kind = "[]SkiWeather" -> SkiWeather
      [] kind = "[]Condition" -> Condition
      [] kind = "[]ForecastCondition" -> ForecastCondition
      [] kind = "[]MarineCondition" -> MarineCondition
      [] kind = "[]SkiCondition" -> SkiCondition
IsStructSlice(kind) ==
    kind \in {"[]Weather", "[]ForecastWeather", "[]MarineWeather", "[]SkiWeather",
              "[]Condition", "[]ForecastCondition", "[]MarineCondition",
              "[]SkiCondition"}

\* the zero value of a Go type
Zero(kind) == CASE kind = "string" -> <<>>
                [] kind = "int" -> 0
                [] kind = "uint" -> 0
                [] kind = "float64" -> 0
                [] kind = "*string" -> <<>>      \* nil; <<s>> points to s
                [] kind = "[]Area" -> <<>>
                [] kind = "Date" -> ZeroTime
                [] kind \in {"Time12", "TimeHMM"} -> Duration(0, 0)
                [] IsStructSlice(kind) -> <<>>

\* new(T)
New(T) == [f \in DOMAIN T |-> Zero(T[f].kind)]

---------------------------------------------------------------------------
(* encoding/xml: xml.Unmarshal(text, o) *)

SyntaxMark == "#syntax"
SyntaxError == [type |-> "xml.SyntaxError", text |-> <<"XML", "syntax", "error">>]

\* a variant that puts the new element in front
growSliceAtFront(slice, elem) == <<elem>> \o slice

\* the slice grown by one element, at its end
growSlice(slice, elem) == Append(slice, elem)

\* a variant that parses the text of an empty element as a number
copyValueParsesEmpty(kind, cur, src) ==
    CASE kind = "string" -> [val |-> src, err |-> <<>>]
      [] kind = "*string" -> [val |-> <<src>>, err |-> <<>>]
      [] kind = "[]Area" -> [val |-> Append(cur, src), err |-> <<>>]
      [] kind = "int" ->
           LET r == ParseInt(TrimSpace(src), IntSize)
           IN IF r.err = <<>> THEN r ELSE [val |-> cur, err |-> r.err]
      [] kind = "uint" ->
           LET r == ParseUint(TrimSpace(src), IntSize)
           IN IF r.err = <<>> THEN r ELSE [val |-> cur, err |-> r.err]
      [] kind = "float64" ->
           LET r == ParseFloat(TrimSpace(src))
           IN IF r.err = <<>> THEN r ELSE [val |-> cur, err |-> r.err]
      [] kind = "Date" -> DateUnmarshalXML(src)
      [] kind = "Time12" -> Time12UnmarshalXML(src)
      [] kind = "TimeHMM" -> TimeHMMUnmarshalXML(src)
      [] IsStructSlice(kind) -> [val |-> growSlice(cur, New(ElemType(kind))), err |-> <<>>]

\* copyValue: the character data src into a field of the given type
\* holding cur; a number that does not parse leaves the field as it was
copyValue(kind, cur, src) ==
    CASE kind = "string" -> [val |-> src, err |-> <<>>]
      [] kind = "*string" -> [val |-> <<src>>, err |-> <<>>]
      [] kind = "[]Area" -> [val |-> Append(cur, src), err |-> <<>>]
      [] kind = "int" ->
           IF src = <<>> THEN [val |-> 0, err |-> <<>>]
           ELSE LET r == ParseInt(TrimSpace(src), IntSize)
                IN IF r.err = <<>> THEN r ELSE [val |-> cur, err |-> r.err]
      [] kind = "uint" ->
           IF src = <<>> THEN [val |-> 0, err |-> <<>>]
           ELSE LET r == ParseUint(TrimSpace(src), IntSize)
                IN IF r.err = <<>> THEN r ELSE [val |-> cur, err |-> r.err]
      [] kind = "float64" ->
           IF src = <<>> THEN [val |-> 0, err |-> <<>>]
           ELSE LET r == ParseFloat(TrimSpace(src))
                IN IF r.err = <<>> THEN r ELSE [val |-> cur, err |-> r.err]
      [] kind = "Date" -> DateUnmarshalXML(src)
      [] kind = "Time12" -> Time12UnmarshalXML(src)
      [] kind = "TimeHMM" -> TimeHMMUnmarshalXML(src)
      [] IsStructSlice(kind) -> [val |-> growSlice(cur, New(ElemType(kind))), err |-> <<>>]

\* one element of the payload: it goes to the field whose tag, under the
\* prefix of the enclosing elements, is its path, or into the last struct
\* of the slice whose element encloses it; hit tells whether a field took it
RECURSIVE unmarshalPath(_, _, _, _)
unmarshalPath(T, rep, prefix, leaf) ==
    LET named == {f \in DOMAIN T : prefix \o T[f].tag = leaf.path}
        slices == {f \in DOMAIN T : IsStructSlice(T[f].kind) /\ rep[f] # <<>>}
        inside == [f \in slices |->
                     unmarshalPath(ElemType(T[f].kind), rep[f][Len(rep[f])],
                                   prefix \o T[f].tag \o ">", leaf)]
        within == {f \in slices : inside[f].hit}
    IN IF named # {}
       THEN LET f == CHOOSE g \in named : TRUE
                r == copyValue(T[f].kind, rep[f], leaf.text)
            IN [o |-> [rep EXCEPT ![f] = r.val], err |-> r.err, hit |-> TRUE]
       ELSE IF within # {}
       THEN LET f == CHOOSE g \in within : TRUE
                r == inside[f]
            IN [o |-> [rep EXCEPT ![f][Len(rep[f])] = r.o], err |-> r.err,
                hit |-> TRUE]
       ELSE [o |-> rep, err |-> <<>>, hit |-> FALSE]

\* the elements are decoded in document order into the report, which keeps
\* what was stored when an element fails; an element no field's tag names is
\* skipped
RECURSIVE unmarshalFrom(_, _, _, _)
unmarshalFrom(T, data, i, rep) ==
    IF i > Len(data) THEN [o |-> rep, err |-> <<>>]
    ELSE IF data[i].path = SyntaxMark THEN [o |-> rep, err |-> <<SyntaxError>>]
    ELSE LET r == unmarshalPath(T, rep, "", data[i])
         IN IF r.err = <<>> THEN unmarshalFrom(T, data, i + 1, r.o)
            ELSE [o |-> r.o, err |-> r.err]

Unmarshal(T, data, rep) == unmarshalFrom(T, data, 1, rep)

\* errors.New
errorsNew(s) == [type |-> "errors.errorString", text |-> s]

---------------------------------------------------------------------------
(* The seven operations: the service each names and the report it decodes *)

Service == [op \in Ops |->
    CASE op = "GetLocal" -> "weather"
      [] op = "GetMarine" -> "marine"
      [] op = "GetSki" -> "ski"
      [] op = "GetPastLocal" -> "past-weather"
      [] op = "GetPastMarine" -> "past-marine"
      [] op = "GetSearch" -> "search"
      [] op = "GetTimeZone" -> "tz"]

ReportType(op) ==
    CASE op = "GetLocal" -> Local
      [] op = "GetMarine" -> Marine
      [] op = "GetSki" -> Ski
      [] op = "GetPastLocal" -> PastLocal
      [] op = "GetPastMarine" -> PastMarine
      [] op = "GetSearch" -> Search
      [] op = "GetTimeZone" -> TimeZone

---------------------------------------------------------------------------
(* fetch: the request *)

\* m[k] = v on a map[string]string
MapSet(m, k, v) == [x \in DOMAIN m \cup {k} |-> IF x = k THEN v ELSE m[x]]

EmptyMap == [k \in {} |-> ""]

\* a variant that sets format before the entries of query
fetchValuesFormatFirst(client, query) ==
    LET v1 == MapSet(MapSet(EmptyMap, "key", client.Key), "format", "xml")
    IN [k \in DOMAIN v1 \cup DOMAIN query |->
          IF k \in DOMAIN query THEN query[k] ELSE v1[k]]

\* the url.Values fetch builds: key, then every entry of query, then format
fetchValues(client, query) ==
    LET v1 == MapSet(EmptyMap, "key", client.Key)
        v2 == [k \in DOMAIN v1 \cup DOMAIN query |->
                 IF k \in DOMAIN query THEN query[k] ELSE v1[k]]
    IN MapSet(v2, "format", "xml")

\* url.Values.Encode: the parameters sorted by name
KeyOrder == <<"date_format", "format", "fx", "key", "q">>
Encode(values) ==
    LET ks == SelectSeq(KeyOrder, LAMBDA k : k \in DOMAIN values)
    IN [i \in 1..Len(ks) |-> <<ks[i], values[ks[i]]>>]

\* a variant with the two schemes exchanged
fetchURLSchemesExchanged(client, service, query) ==
    [Scheme |-> IF client.Insecure THEN "https" ELSE "http",
     Host |-> "api.worldweatheronline.com",
     Path |-> "/premium/v1/" \o service \o ".ashx",
     RawQuery |-> Encode(fetchValues(client, query))]

fetchURL(client, service, query) ==
    [Scheme |-> IF client.Insecure THEN "http" ELSE "https",
     Host |-> "api.worldweatheronline.com",
     Path |-> "/premium/v1/" \o service \o ".ashx",
     RawQuery |-> Encode(fetchValues(client, query))]

\* the values a request carries for the parameter k
QueryGet(req, k) == {req.RawQuery[i][2] :
                       i \in {j \in 1..Len(req.RawQuery) : req.RawQuery[j][1] = k}}

---------------------------------------------------------------------------
(* What the remote service may answer *)

Leaf(p, t) == [path |-> p, text |-> t]

\* decimal text of an integer, as the service writes it
RECURSIVE FormatNat(_)
FormatNat(n) ==
    LET d == CHOOSE c \in DOMAIN DigitVal : DigitVal[c] = n % 10
    IN IF n < 10 THEN <<d>> ELSE Append(FormatNat(n \div 10), d)
FormatInt(n) == IF n < 0 THEN <<"-">> \o FormatNat(0 - n) ELSE FormatNat(n)

Messages == {<<>>, <<"Unable", "to", "find", "any", "matching", "location">>}
Echo(q) == Leaf("request>query", <<q>>)
ErrNode(m) == Leaf("error>msg", m)
Broken == Leaf(SyntaxMark, <<>>)

\* the current conditions a Local payload may report
CurrentValues ==
    [Temp : {20, -5}, Humidity : {60, 0}, Pressure : {1022}, Visibility : {10},
     WindSpeed : {15}, Wind : {<<90, "E">>, <<270, "WSW">>}]

LocalPayload(v) ==
    <<Echo("London"),
      Leaf("current_condition>temp_C", FormatInt(v.Temp)),
      Leaf("current_condition>humidity", FormatInt(v.Humidity)),
      Leaf("current_condition>pressure", FormatInt(v.Pressure)),
      Leaf("current_condition>visibility", FormatInt(v.Visibility)),
      Leaf("current_condition>windspeedKmph", FormatInt(v.WindSpeed)),
      Leaf("current_condition>winddirDegree", FormatInt(v.Wind[1])),
      Leaf("current_condition>winddir16Point", <<v.Wind[2]>>)>>

ErrorPayloads ==
    {<<ErrNode(m)>> : m \in Messages}
    \cup {<<Echo("London"), ErrNode(m)>> : m \in Messages}

MalformedPayloads ==
    {<<Broken>>,
     <<Echo("Paris"), Broken>>,
     <<ErrNode(<<"quota">>), Broken>>,
     <<Leaf("nearest_area>population", <<"-", "5">>)>>,
     <<Echo("Paris"), Leaf("current_condition>temp_C", <<"x">>)>>,
     <<ErrNode(<<"quota">>), Leaf("nearest_area>population", <<"1", "x">>)>>,
     <<Echo("Paris"), Leaf("nearest_area>latitude", <<"4", "8", ".", "x">>),
       Leaf("nearest_area>areaName", <<"Paris">>)>>}

OtherPayloads ==
    {<<>>,
     <<Leaf("result>areaName", <<"London">>),
       Leaf("result>areaName", <<"Londonderry">>)>>,
     <<Echo("London"), Leaf("nearest_area>areaName", <<"London">>),
       Leaf("nearest_area>population", <<" ", "7", "5", " ">>)>>,
     <<Leaf("current_condition>humidity", <<>>),
       Leaf("current_condition>FeelsLikeC", <<"+", "3">>)>>,
     <<Echo("London"), Leaf("nearest_area>latitude", <<"5", "1", ".", "5", "1", "7">>),
       Leaf("nearest_area>population", <<"0">>)>>}

\* the days a payload may report: the times of the samples of the first
\* day in the order the payload lists them, and its maximum temperature in
\* the two units
DayValues ==
    [Times : {<<0, 300>>, <<300, 0>>, <<1200, 1200>>},
     Max : {<<20, 68>>, <<20, 50>>}]

Hourly(time, temp) ==
    <<Leaf("weather>hourly", <<>>),
      Leaf("weather>hourly>time", FormatNat(time)),
      Leaf("weather>hourly>tempC", FormatInt(temp))>>

Day(date, max, min, times) ==
    <<Leaf("weather", <<>>),
      Leaf("weather>date", date),
      Leaf("weather>maxtempC", FormatInt(max[1])),
      Leaf("weather>maxtempF", FormatInt(max[2])),
      Leaf("weather>mintempC", FormatInt(min[1])),
      Leaf("weather>mintempF", FormatInt(min[2]))>>
    \o Hourly(times[1], 12) \o Hourly(times[2], 18)

WeatherPayload(v) ==
    <<Echo("London")>>
    \o Day(<<"2", "0", "1", "5", "-", "0", "6", "-", "0", "1">>, v.Max, <<-5, 23>>, v.Times)
    \o Day(<<"2", "0", "1", "5", "-", "0", "6", "-", "0", "2">>, <<25, 77>>, <<10, 50>>, <<600, 1800>>)

\* a forecast whose second day carries a date that is no day of the calendar
MisdatedPayload ==
    <<Echo("London")>>
    \o Day(<<"2", "0", "1", "5", "-", "0", "6", "-", "0", "1">>, <<20, 68>>, <<-5, 23>>, <<0, 300>>)
    \o Day(<<"2", "0", "1", "5", "-", "0", "2", "-", "3", "0">>, <<25, 77>>, <<10, 50>>, <<600, 1800>>)

\* a forecast with a sample whose time is beyond what a TimeHMM takes
MistimedPayload ==
    <<Echo("London")>>
    \o Day(<<"2", "0", "1", "5", "-", "0", "6", "-", "0", "1">>, <<20, 68>>, <<-5, 23>>, <<300, 4096>>)

Payloads == ErrorPayloads \cup MalformedPayloads \cup OtherPayloads
            \cup {LocalPayload(v) : v \in CurrentValues}
            \cup {WeatherPayload(v) : v \in DayValues}
            \cup {MisdatedPayload, MistimedPayload}

\* what http.Get and ioutil.ReadAll may fail with
GetErrors == {[type |-> "url.Error", text |-> <<"dial", "tcp", "timeout">>]}
ReadErrors == {[type |-> "net.OpError", text |-> <<"connection", "reset">>]}

---------------------------------------------------------------------------
(* The state machine: one caller runs one Get operation at a time, a step  *)
(* of the operation per action.                                            *)

\* a variant that takes an empty message for no error
ErrorIsSetAndNonEmpty(rep) == rep.Error # <<>> /\ rep.Error[1] # <<>>

\* o.Error != nil
ErrorIsSet(rep) == rep.Error # <<>>

NoCall == [op |-> "none", location |-> "", opt |-> NilMap]

\* no element is being decoded
NoCodec == [type |-> "none", content |-> <<>>, stage |-> "none",
            val |-> ZeroTime, err |-> <<>>, str |-> <<>>]

InitFor(active) ==
    /\ w \in [Key : {APIKey}, Insecure : BOOLEAN]
    /\ heap \in {h \in [Callers -> OptionMaps] :
                   \A c \in Callers \ active : h[c] = EmptyMap}
    /\ pc = [c \in Callers |-> "idle"]
    /\ call = [c \in Callers |-> NoCall]
    /\ text = [c \in Callers |-> <<>>]
    /\ err = [c \in Callers |-> <<>>]
    /\ o = [c \in Callers |-> <<>>]
    /\ ret = [c \in Callers |-> <<>>]
    /\ resp = [c \in Callers |-> <<>>]
    /\ wire = [c \in Callers |-> <<>>]
    /\ entry = [c \in Callers |-> <<>>]
    /\ transportErr = [c \in Callers |-> <<>>]
    /\ ndecode = [c \in Callers |-> 0]
    /\ ncalls = [c \in Callers |-> 0]
    /\ nsent = 0
    /\ codec = NoCodec

Init == InitFor(SeqCallers)

\* the caller invokes w.Get<Report>(location, opt), passing its map or nil
GetCallOf(c, ops, opts, limit) ==
    /\ pc[c] \in {"idle", "done"}
    /\ ncalls[c] < limit
    /\ \E op \in ops, location \in Locations, opt \in opts :
         /\ call' = [call EXCEPT ![c] =
                       [op |-> op, location |-> location, opt |-> opt]]
         /\ entry' = [entry EXCEPT ![c] =
                        IF opt = NilMap THEN <<>> ELSE <<heap[opt]>>]
    /\ pc' = [pc EXCEPT ![c] = "setq"]
    /\ text' = [text EXCEPT ![c] = <<>>]
    /\ err' = [err EXCEPT ![c] = <<>>]
    /\ o' = [o EXCEPT ![c] = <<>>]
    /\ ret' = [ret EXCEPT ![c] = <<>>]
    /\ resp' = [resp EXCEPT ![c] = <<>>]
    /\ wire' = [wire EXCEPT ![c] = <<>>]
    /\ transportErr' = [transportErr EXCEPT ![c] = <<>>]
    /\ ndecode' = [ndecode EXCEPT ![c] = 0]
    /\ ncalls' = [ncalls EXCEPT ![c] = @ + 1]
    /\ UNCHANGED <<w, heap, nsent>>

\* one caller at a time: any operation, with the caller's own map or nil
GetCall(c) == GetCallOf(c, Ops, {NilMap, MapOf(c)}, MaxCalls)

\* a variant that keeps a q the caller supplied
GetSetQIfAbsent(c) ==
    /\ pc[c] = "setq"
    /\ \/ /\ call[c].opt = NilMap
          /\ pc' = [pc EXCEPT ![c] = "panic"]
          /\ UNCHANGED heap
       \/ /\ call[c].opt # NilMap
          /\ heap' = [heap EXCEPT ![call[c].opt] =
                        IF "q" \in DOMAIN @ THEN @ ELSE MapSet(@, "q", call[c].location)]
          /\ pc' = [pc EXCEPT ![c] = "setdf"]
    /\ UNCHANGED <<w, call, text, err, o, ret, resp, wire, entry, transportErr,
                   ndecode, ncalls, nsent>>

\* opt["q"] = location; an assignment to an entry of a nil map panics
GetSetQ(c) ==
    /\ pc[c] = "setq"
    /\ \/ /\ call[c].opt = NilMap
          /\ pc' = [pc EXCEPT ![c] = "panic"]
          /\ UNCHANGED heap
       \/ /\ call[c].opt # NilMap
          /\ heap' = [heap EXCEPT ![call[c].opt] = MapSet(@, "q", call[c].location)]
          /\ pc' = [pc EXCEPT ![c] = "setdf"]
    /\ UNCHANGED <<w, call, text, err, o, ret, resp, wire, entry, transportErr,
                   ndecode, ncalls, nsent>>

\* opt["date_format"] = ""
GetSetDateFormat(c) ==
    /\ pc[c] = "setdf"
    /\ heap' = [heap EXCEPT ![call[c].opt] = MapSet(@, "date_format", "")]
    /\ pc' = [pc EXCEPT ![c] = "fetch"]
    /\ UNCHANGED <<w, call, text, err, o, ret, resp, wire, entry, transportErr,
                   ndecode, ncalls, nsent>>

\* fetch, to http.Get: the request is built from the client and the map and
\* sent; http.Get fails, or answers with a response whose body is any payload
fetchGetOf(c, bodies) ==
    /\ pc[c] = "fetch"
    /\ wire' = [wire EXCEPT ![c] =
                  Append(@, fetchURL(w, Service[call[c].op], heap[call[c].opt]))]
    /\ nsent' = nsent + 1
    /\ \/ \E e \in GetErrors :
            /\ err' = [err EXCEPT ![c] = <<e>>]
            /\ transportErr' = [transportErr EXCEPT ![c] = <<e>>]
            /\ pc' = [pc EXCEPT ![c] = "fetched"]
            /\ UNCHANGED resp
       \/ \E body \in bodies :
            /\ resp' = [resp EXCEPT ![c] = <<body>>]
            /\ pc' = [pc EXCEPT ![c] = "readall"]
            /\ UNCHANGED <<err, transportErr>>
    /\ UNCHANGED <<w, heap, call, text, o, ret, entry, ndecode, ncalls>>

fetchGet(c) == fetchGetOf(c, Payloads)

\* fetch, from ioutil.ReadAll: reading the body fails, or gives the text
fetchReadAll(c) ==
    /\ pc[c] = "readall"
    /\ \/ \E e \in ReadErrors :
            /\ err' = [err EXCEPT ![c] = <<e>>]
            /\ transportErr' = [transportErr EXCEPT ![c] = <<e>>]
            /\ UNCHANGED text
       \/ /\ text' = [text EXCEPT ![c] = <<resp[c][1]>>]
          /\ UNCHANGED <<err, transportErr>>
    /\ resp' = [resp EXCEPT ![c] = <<>>]
    /\ pc' = [pc EXCEPT ![c] = "fetched"]
    /\ UNCHANGED <<w, heap, call, o, ret, wire, entry, ndecode, ncalls, nsent>>

\* a variant that returns an allocated report with the transport's error
GetFetchErrWithReport(c) ==
    /\ pc[c] = "fetched"
    /\ err[c] # <<>>
    /\ ret' = [ret EXCEPT ![c] =
                 <<[report |-> <<New(ReportType(call[c].op))>>, err |-> err[c]]>>]
    /\ pc' = [pc EXCEPT ![c] = "done"]
    /\ UNCHANGED <<w, heap, call, text, err, o, resp, wire, entry, transportErr,
                   ndecode, ncalls, nsent>>

\* if err != nil { return nil, err }  after fetch
GetFetchErr(c) ==
    /\ pc[c] = "fetched"
    /\ err[c] # <<>>
    /\ ret' = [ret EXCEPT ![c] = <<[report |-> <<>>, err |-> err[c]]>>]
    /\ pc' = [pc EXCEPT ![c] = "done"]
    /\ UNCHANGED <<w, heap, call, text, err, o, resp, wire, entry, transportErr,
                   ndecode, ncalls, nsent>>

\* o = new(T); err = xml.Unmarshal(text, o)
GetUnmarshal(c) ==
    /\ pc[c] = "fetched"
    /\ err[c] = <<>>
    /\ LET T == ReportType(call[c].op)
           r == Unmarshal(T, text[c][1], New(T))
       IN /\ o' = [o EXCEPT ![c] = <<r.o>>]
          /\ err' = [err EXCEPT ![c] = r.err]
    /\ ndecode' = [ndecode EXCEPT ![c] = @ + 1]
    /\ pc' = [pc EXCEPT ![c] = "decoded"]
    /\ UNCHANGED <<w, heap, call, text, ret, resp, wire, entry, transportErr,
                   ncalls, nsent>>

\* a variant that returns no report with the decode error
GetDecodeErrNilReport(c) ==
    /\ pc[c] = "decoded"
    /\ err[c] # <<>>
    /\ ret' = [ret EXCEPT ![c] = <<[report |-> <<>>, err |-> err[c]]>>]
    /\ pc' = [pc EXCEPT ![c] = "done"]
    /\ UNCHANGED <<w, heap, call, text, err, o, resp, wire, entry, transportErr,
                   ndecode, ncalls, nsent>>

\* a variant that drops the decode error
GetDecodeErrDropped(c) ==
    /\ pc[c] = "decoded"
    /\ err[c] # <<>>
    /\ ret' = [ret EXCEPT ![c] = <<[report |-> o[c], err |-> <<>>]>>]
    /\ pc' = [pc EXCEPT ![c] = "done"]
    /\ UNCHANGED <<w, heap, call, text, err, o, resp, wire, entry, transportErr,
                   ndecode, ncalls, nsent>>

\* a variant that looks at the error message before the decode error
GetDecodeErrMessageFirst(c) ==
    /\ pc[c] = "decoded"
    /\ err[c] # <<>>
    /\ ret' = [ret EXCEPT ![c] =
                 <<[report |-> o[c],
                    err |-> IF ErrorIsSet(o[c][1])
                            THEN <<errorsNew(o[c][1].Error[1])>> ELSE err[c]]>>]
    /\ pc' = [pc EXCEPT ![c] = "done"]
    /\ UNCHANGED <<w, heap, call, text, err, o, resp, wire, entry, transportErr,
                   ndecode, ncalls, nsent>>

\* a variant that returns a fresh report in place of the one decoded so far
GetDecodeErrFreshReport(c) ==
    /\ pc[c] = "decoded"
    /\ err[c] # <<>>
    /\ ret' = [ret EXCEPT ![c] = <<[report |-> <<New(ReportType(call[c].op))>>,
                                    err |-> err[c]]>>]
    /\ pc' = [pc EXCEPT ![c] = "done"]
    /\ UNCHANGED <<w, heap, call, text, err, o, resp, wire, entry, transportErr,
                   ndecode, ncalls, nsent>>

\* if err != nil { return o, err }  after xml.Unmarshal
GetDecodeErr(c) ==
    /\ pc[c] = "decoded"
    /\ err[c] # <<>>
    /\ ret' = [ret EXCEPT ![c] = <<[report |-> o[c], err |-> err[c]]>>]
    /\ pc' = [pc EXCEPT ![c] = "done"]
    /\ UNCHANGED <<w, heap, call, text, err, o, resp, wire, entry, transportErr,
                   ndecode, ncalls, nsent>>

\* if o.Error != nil { return o, errors.New(*o.Error) }
GetAPIErr(c) ==
    /\ pc[c] = "decoded"
    /\ err[c] = <<>>
    /\ ErrorIsSet(o[c][1])
    /\ ret' = [ret EXCEPT ![c] =
                 <<[report |-> o[c], err |-> <<errorsNew(o[c][1].Error[1])>>]>>]
    /\ pc' = [pc EXCEPT ![c] = "done"]
    /\ UNCHANGED <<w, heap, call, text, err, o, resp, wire, entry, transportErr,
                   ndecode, ncalls, nsent>>

\* return o, nil
GetReturn(c) ==
    /\ pc[c] = "decoded"
    /\ err[c] = <<>>
    /\ ~ErrorIsSet(o[c][1])
    /\ ret' = [ret EXCEPT ![c] = <<[report |-> o[c], err |-> <<>>]>>]
    /\ pc' = [pc EXCEPT ![c] = "done"]
    /\ UNCHANGED <<w, heap, call, text, err, o, resp, wire, entry, transportErr,
                   ndecode, ncalls, nsent>>

Step(c) ==
    /\ \/ GetCall(c)
       \/ GetSetQ(c)
       \/ GetSetDateFormat(c)
       \/ fetchGet(c)
       \/ fetchReadAll(c)
       \/ GetFetchErr(c)
       \/ GetUnmarshal(c)
       \/ GetDecodeErr(c)
       \/ GetAPIErr(c)
       \/ GetReturn(c)
    /\ UNCHANGED codec

Next == \E c \in SeqCallers : Step(c)

Spec == Init /\ [][Next]_vars

---------------------------------------------------------------------------
(* Several callers at once on one client, each in its own goroutine.  A   *)
(* caller passes nil or any of the maps of the program, so two calls may   *)
(* hold the same map.                                                      *)

ConcOps == {"GetLocal", "GetSearch"}
ConcPayloads ==
    {<<Echo("London")>>,
     <<ErrNode(<<"quota">>)>>,
     <<Echo("Paris"), Broken>>}

InitConc ==
    /\ InitFor(Callers)
    /\ ~w.Insecure
    /\ heap["c1"] \in {EmptyMap, [k \in {"fx"} |-> OptionVal[k]]}
    /\ heap["c2"] = EmptyMap

\* go w.Get<Report>(location, opt): one call per caller
GoGetCall(c) == GetCallOf(c, ConcOps, {NilMap} \cup {MapOf(d) : d \in Callers}, 1)

GoFetchGet(c) == fetchGetOf(c, ConcPayloads)

\* Two goroutines at their accesses to one map, one of them writing, race.
\* The writes may take effect one after the other, as GetSetQ and
\* GetSetDateFormat have them, or the runtime detects the race and ends
\* the program ("fatal error: concurrent map writes").
ConcurrentMapWrites(c) ==
    /\ pc[c] \in {"setq", "setdf"}
    /\ call[c].opt # NilMap
    /\ \E d \in Callers \ {c} :
         /\ call[d].opt = call[c].opt
         /\ pc[d] \in {"setq", "setdf", "fetch"}
    /\ pc' = [d \in Callers |-> "fatal"]
    /\ UNCHANGED <<w, heap, call, text, err, o, ret, resp, wire, entry,
                   transportErr, ndecode, ncalls, nsent>>

StepConc(c) ==
    /\ \/ GoGetCall(c)
       \/ GetSetQ(c)
       \/ GetSetDateFormat(c)
       \/ ConcurrentMapWrites(c)
       \/ GoFetchGet(c)
       \/ fetchReadAll(c)
       \/ GetFetchErr(c)
       \/ GetUnmarshal(c)
       \/ GetDecodeErr(c)
       \/ GetAPIErr(c)
       \/ GetReturn(c)
    /\ UNCHANGED codec

NextConc == \E c \in Callers : StepConc(c)

SpecConc == InitConc /\ [][NextConc]_vars

---------------------------------------------------------------------------
(* Date, Time12 and TimeHMM on their own: an element with some character   *)
(* data is handed to UnmarshalXML, and String is called on what it stored  *)

MaxHour == 13       \* hours written in 12-hour texts: 0..MaxHour
MaxMinute == 60     \* minutes written in 12-hour texts: 0..MaxMinute
MaxHMM == 4100      \* integers written as hour-and-minute texts: 0..MaxHMM
MaxMonth == 13      \* months written in date texts: 0..MaxMonth
MaxDay == 32        \* days written in date texts: 0..MaxDay
Years == {1, 1900, 2000, 2015, 2016}

AM == <<"A", "M">>
PM == <<"P", "M">>

Time12Texts ==
    {ht \o <<":">> \o appendInt(m, 2) \o <<" ">> \o ap :
        ht \in {FormatNat(h) : h \in 0..MaxHour} \cup {appendInt(h, 2) : h \in 0..9},
        m \in 0..MaxMinute,
        ap \in {AM, PM, <<"p", "m">>}}
    \cup {<<"N", "o", " ", "m", "o", "o", "n", "r", "i", "s", "e">>,
          <<"N", "o", " ">>,
          <<"N", "o">>, <<>>,
          <<"1", "2", ":", "0", "0">>, <<"1", ":", "5", " ", "P", "M">>, <<"1", ":", "0", "0", "P", "M">>, <<"1", ":", "0", "0", " ", " ", "P", "M">>, <<"1", ":", "0", "0", " ", "P", "M", " ">>}

TimeHMMTexts ==
    {FormatNat(v) : v \in 0..MaxHMM} \cup {appendInt(v, 4) : v \in 0..MaxHMM}
    \cup {<<>>, <<"x">>, <<"-", "1">>, <<" ", "1", "0", "0">>}

DateTexts ==
    {appendInt(y, 4) \o <<"-">> \o appendInt(m, 2) \o <<"-">> \o appendInt(d, 2) :
        y \in Years, m \in 0..MaxMonth, d \in 0..MaxDay}
    \cup {<<>>, <<"2", "0", "1", "5", "-", "1", "-", "1">>, <<"2", "0", "1", "5", "-", "0", "1", "-", "0", "1", "T", "0", "0", ":", "0", "0">>, <<"1", "5", "-", "0", "1", "-", "0", "1">>}

InitCodec ==
    /\ w = [Key |-> APIKey, Insecure |-> FALSE]
    /\ heap = [c \in Callers |-> EmptyMap]
    /\ pc = [c \in Callers |-> "idle"]
    /\ call = [c \in Callers |-> NoCall]
    /\ text = [c \in Callers |-> <<>>]
    /\ err = [c \in Callers |-> <<>>]
    /\ o = [c \in Callers |-> <<>>]
    /\ ret = [c \in Callers |-> <<>>]
    /\ resp = [c \in Callers |-> <<>>]
    /\ wire = [c \in Callers |-> <<>>]
    /\ entry = [c \in Callers |-> <<>>]
    /\ transportErr = [c \in Callers |-> <<>>]
    /\ ndecode = [c \in Callers |-> 0]
    /\ ncalls = [c \in Callers |-> 0]
    /\ nsent = 0
    /\ \E type \in {"Date", "Time12", "TimeHMM"} :
         \E content \in (CASE type = "Date" -> DateTexts
                           [] type = "Time12" -> Time12Texts
                           [] type = "TimeHMM" -> TimeHMMTexts) :
            codec = [NoCodec EXCEPT !.type = type, !.content = content,
                                    !.stage = "element"]

\* UnmarshalXML of the element's type stores a value and returns an error
Stored(r) == [codec EXCEPT !.stage = "decoded", !.val = r.val, !.err = r.err]
\* String of the stored value
Printed(s) == [codec EXCEPT !.stage = "printed", !.str = s]

CallDateUnmarshalXML ==
    /\ codec.type = "Date" /\ codec.stage = "element"
    /\ codec' = Stored(DateUnmarshalXML(codec.content))
    /\ UNCHANGED clientVars

CallDateString ==
    /\ codec.type = "Date" /\ codec.stage = "decoded"
    /\ codec' = Printed(DateString(codec.val))
    /\ UNCHANGED clientVars

CallTime12UnmarshalXML ==
    /\ codec.type = "Time12" /\ codec.stage = "element"
    /\ codec' = Stored(Time12UnmarshalXML(codec.content))
    /\ UNCHANGED clientVars

CallTime12String ==
    /\ codec.type = "Time12" /\ codec.stage = "decoded"
    /\ codec' = Printed(Time12String(codec.val))
    /\ UNCHANGED clientVars

CallTimeHMMUnmarshalXML ==
    /\ codec.type = "TimeHMM" /\ codec.stage = "element"
    /\ codec' = Stored(TimeHMMUnmarshalXML(codec.content))
    /\ UNCHANGED clientVars

CallTimeHMMString ==
    /\ codec.type = "TimeHMM" /\ codec.stage = "decoded"
    /\ codec' = Printed(TimeHMMString(codec.val))
    /\ UNCHANGED clientVars

NextCodec ==
    \/ CallDateUnmarshalXML
    \/ CallDateString
    \/ CallTime12UnmarshalXML
    \/ CallTime12String
    \/ CallTimeHMMUnmarshalXML
    \/ CallTimeHMMString

SpecCodec == InitCodec /\ [][NextCodec]_vars

---------------------------------------------------------------------------
(* What the claims speak of *)

Returned(c) == pc[c] = "done"
Delivered(c) == text[c] # <<>>
ReportOf(c) == ret[c][1].report
ErrOf(c) == ret[c][1].err

\* text that is a number of the given type, said without the parser
IsSigned(t) == Len(t) > 1 /\ t[1] \in {"+", "-"} /\ IsDigits(Tail(t))
DaysOfMonth(y, m) ==
    IF m \in {4, 6, 9, 11} THEN 30
    ELSE IF m # 2 THEN 31
    ELSE IF y % 400 = 0 \/ (y % 4 = 0 /\ y % 100 # 0) THEN 29 ELSE 28
IsDecimal(t) ==
    LET body == IF Len(t) > 0 /\ t[1] \in {"+", "-"} THEN Tail(t) ELSE t
        dots == {i \in 1..Len(body) : body[i] = "."}
    IN /\ Cardinality(dots) <= 1
       /\ Len(body) > Cardinality(dots)
       /\ \A i \in (1..Len(body)) \ dots : body[i] \in DOMAIN DigitVal
IsCalendarDay(t) ==
    /\ Len(t) = 10 /\ t[5] = "-" /\ t[8] = "-"
    /\ IsDigits(SubSeq(t, 1, 4)) /\ IsDigits(SubSeq(t, 6, 7)) /\ IsDigits(SubSeq(t, 9, 10))
    /\ DecVal(SubSeq(t, 6, 7)) \in 1..12
    /\ DecVal(SubSeq(t, 9, 10)) \in
           1..DaysOfMonth(DecVal(SubSeq(t, 1, 4)), DecVal(SubSeq(t, 6, 7)))
Conforms(kind, t) ==
    CASE kind = "int" -> t = <<>> \/ IsDigits(TrimSpace(t)) \/ IsSigned(TrimSpace(t))
      [] kind = "uint" -> t = <<>> \/ IsDigits(TrimSpace(t))
      [] kind = "float64" -> t = <<>> \/ IsDecimal(TrimSpace(t))
      [] kind = "Date" -> IsCalendarDay(t)
      [] kind = "TimeHMM" -> IsDigits(t) /\ Len(t) <= 4 /\ DecVal(t) < 2 ^ 12
      [] OTHER -> TRUE

\* the types of the fields that an element at this path may go to, in the
\* report or in the structs of its lists
RECURSIVE KindsAt(_, _, _)
KindsAt(T, prefix, path) ==
    {T[f].kind : f \in {g \in DOMAIN T : prefix \o T[g].tag = path}}
    \cup UNION {KindsAt(ElemType(T[f].kind), prefix \o T[f].tag \o ">", path) :
                  f \in {g \in DOMAIN T : IsStructSlice(T[g].kind)}}

\* the element i of the payload cannot be decoded into a report of type T:
\* the markup breaks there, or its text is not of the type of the field
\* that it names
BadAt(T, data, i) ==
    \/ data[i].path = SyntaxMark
    \/ \E k \in KindsAt(T, "", data[i].path) : ~Conforms(k, data[i].text)

\* the payload does not decode structurally into a report of type T
StructurallyBad(T, data) == \E i \in 1..Len(data) : BadAt(T, data, i)

ErrorNodes(data) == {i \in 1..Len(data) : data[i].path = "error>msg"}
CarriesError(data) == ErrorNodes(data) # {}
MessageOf(data) ==
    data[CHOOSE i \in ErrorNodes(data) : \A j \in ErrorNodes(data) : j <= i].text

---------------------------------------------------------------------------
(* Claims *)

\* C1: when the transport fails (http.Get fails or the body cannot be read)
\* the operation returns a nil report with exactly the transport's error,
\* and xml.Unmarshal is not invoked in that call.
C1_TransportError ==
    \A c \in Callers :
        transportErr[c] # <<>> =>
            /\ pc[c] \in {"fetched", "done"}
            /\ ndecode[c] = 0
            /\ Returned(c) => ReportOf(c) = <<>> /\ ErrOf(c) = transportErr[c]

C1_Witness ==
    \E c \in Callers :
        Returned(c) /\ transportErr[c] # <<>> /\ transportErr[c][1] \in ReadErrors

\* C2: a payload that decodes without structural error and carries an
\* error>msg node makes the operation return a non-nil report and a non-nil
\* error whose text is the message, the empty message included; if the
\* payload is the error node alone, every other field of the report is zero.
C2_RemoteError ==
    \A c \in Callers :
        LET T == ReportType(call[c].op)
            data == text[c][1]
        IN Returned(c) /\ Delivered(c) /\ ~StructurallyBad(T, data)
           /\ CarriesError(data) =>
              /\ ReportOf(c) # <<>>
              /\ ErrOf(c) # <<>>
              /\ ErrOf(c)[1].text = MessageOf(data)
              /\ Len(data) = 1 =>
                   \A f \in DOMAIN T \ {"Error"} :
                       ReportOf(c)[1][f] = Zero(T[f].kind)

C2_Witness ==
    \E c \in Callers :
        Returned(c) /\ Delivered(c) /\ text[c][1] = <<ErrNode(<<>>)>>
        /\ ErrOf(c) # <<>>

\* C3: a delivered payload that fails structural decoding makes the
\* operation return a non-nil error together with a non-nil report.
C3_DecodeError ==
    \A c \in Callers :
        Returned(c) /\ Delivered(c)
        /\ StructurallyBad(ReportType(call[c].op), text[c][1]) =>
            ReportOf(c) # <<>> /\ ErrOf(c) # <<>>

C3_Witness ==
    \E c \in Callers :
        Returned(c) /\ Delivered(c) /\ call[c].op = "GetLocal"
        /\ text[c][1] = <<Echo("Paris"), Leaf("current_condition>temp_C", <<"x">>)>>
        /\ ReportOf(c) # <<>>

\* C4: the returned error is nil exactly when the transport succeeded, the
\* payload decoded without structural error and carried no error>msg node.
C4_NoFailureSwallowed ==
    \A c \in Callers :
        Returned(c) =>
            (ErrOf(c) = <<>> <=>
                /\ transportErr[c] = <<>>
                /\ Delivered(c)
                /\ ~StructurallyBad(ReportType(call[c].op), text[c][1])
                /\ ~CarriesError(text[c][1]))

C4_Witness ==
    \E c \in Callers :
        Returned(c) /\ ErrOf(c) = <<>> /\ Delivered(c) /\ text[c][1] # <<>>

\* C5: for a well-formed Local payload with one current_condition node and
\* no error node GetLocal returns a nil error and a report whose current
\* condition has the temperature, humidity, pressure, visibility, wind
\* speed and wind direction (degrees and compass point) the payload gives.
C5_CurrentCondition ==
    \A c \in Callers : \A v \in CurrentValues :
        Returned(c) /\ call[c].op = "GetLocal" /\ Delivered(c)
        /\ text[c][1] = LocalPayload(v) =>
            /\ ErrOf(c) = <<>>
            /\ ReportOf(c) # <<>>
            /\ LET r == ReportOf(c)[1]
               IN /\ r["Current.Temp"] = v.Temp
                  /\ r["Current.Condition.Humidity"] = v.Humidity
                  /\ r["Current.Condition.Pressure"] = v.Pressure
                  /\ r["Current.Condition.Visibility"] = v.Visibility
                  /\ r["Current.Condition.WindSpeed"] = v.WindSpeed
                  /\ r["Current.Condition.WindDir"] = v.Wind[1]
                  /\ r["Current.Condition.WindDirCompass"] = <<v.Wind[2]>>

C5_Witness ==
    \E c \in Callers :
        Returned(c) /\ call[c].op = "GetLocal" /\ Delivered(c)
        /\ text[c][1] = LocalPayload([Temp |-> 20, Humidity |-> 60,
                                      Pressure |-> 1022, Visibility |-> 10,
                                      WindSpeed |-> 15, Wind |-> <<90, "E">>])
        /\ ErrOf(c) = <<>>

\* C6: every request sent has q equal to the location argument and
\* date_format equal to the empty string, whatever the options map held.
C6_QueryAndDateFormat ==
    \A c \in Callers : \A i \in 1..Len(wire[c]) :
        /\ QueryGet(wire[c][i], "q") = {call[c].location}
        /\ QueryGet(wire[c][i], "date_format") = {""}

C6_Witness ==
    \E c \in Callers :
        /\ Len(wire[c]) = 1
        /\ entry[c] # <<>>
        /\ \/ "q" \in DOMAIN entry[c][1] /\ entry[c][1]["q"] # call[c].location
           \/ "date_format" \in DOMAIN entry[c][1] /\ entry[c][1]["date_format"] # ""

\* C7: every request sent carries the parameter key equal to the client's
\* API key, whatever the options map held.
C7_KeyIsCredential ==
    \A c \in Callers : \A i \in 1..Len(wire[c]) :
        QueryGet(wire[c][i], "key") = {w.Key}

\* C8: every request sent carries the parameter format equal to "xml",
\* whatever the options map held.
C8_FormatIsXml ==
    \A c \in Callers : \A i \in 1..Len(wire[c]) :
        QueryGet(wire[c][i], "format") = {"xml"}

C8_Witness ==
    \E c \in Callers :
        /\ Len(wire[c]) = 1
        /\ entry[c] # <<>>
        /\ "format" \in DOMAIN entry[c][1]
        /\ entry[c][1]["format"] # "xml"

\* C9: a call leaves the client's key and security flag as they were, and
\* when it has returned the caller's options map holds exactly the entries
\* it held when the call was entered.
C9_NoSideEffect ==
    [][/\ w' = w
       /\ \A c \in Callers :
            pc'[c] = "done" /\ call'[c].opt # NilMap =>
                heap'[call'[c].opt] = entry'[c][1]]_vars

\* C10: every invocation issues exactly one request and then returns: no
\* call issues a second request, no call ends without having issued one,
\* and every call issues its own, so that the requests issued are as many
\* as the calls that have got to the transport.
PastFetch(c) == pc[c] \in {"readall", "fetched", "decoded", "done"}
C10_OneRequestPerCall ==
    /\ \A c \in Callers :
         /\ pc[c] # "panic"
         /\ Len(wire[c]) <= 1
         /\ PastFetch(c) => Len(wire[c]) = 1
    /\ nsent = ncalls["c1"] + ncalls["c2"]
               - Cardinality({c \in Callers : pc[c] \in {"setq", "setdf", "fetch"}})

\* what remains of it when the calls that panic are set aside: no call
\* issues a second request, and every call that reaches the transport
\* issues its own
NoRetryNoCache ==
    /\ \A c \in Callers :
         /\ Len(wire[c]) <= 1
         /\ PastFetch(c) => Len(wire[c]) = 1
    /\ nsent = ncalls["c1"] + ncalls["c2"]
               - Cardinality({c \in Callers :
                                pc[c] \in {"setq", "setdf", "fetch", "panic"}})

\* C11: the request has scheme http exactly when Insecure is set and https
\* otherwise, the host api.worldweatheronline.com, and the path
\* /premium/v1/<segment>.ashx with the segment of the operation; the seven
\* segments differ pairwise, and nothing in location or options changes
\* scheme, host or path.
SegmentOf(op) ==
    CASE op = "GetLocal" -> "weather"
      [] op = "GetMarine" -> "marine"
      [] op = "GetSki" -> "ski"
      [] op = "GetPastLocal" -> "past-weather"
      [] op = "GetPastMarine" -> "past-marine"
      [] op = "GetSearch" -> "search"
      [] op = "GetTimeZone" -> "tz"
C11_RequestURL ==
    /\ \A c \in Callers : \A i \in 1..Len(wire[c]) :
         /\ wire[c][i].Scheme = "http" <=> w.Insecure
         /\ wire[c][i].Scheme = "https" <=> ~w.Insecure
         /\ wire[c][i].Host = "api.worldweatheronline.com"
         /\ wire[c][i].Path = "/premium/v1/" \o SegmentOf(call[c].op) \o ".ashx"
    /\ \A a, b \in Ops : a # b => Service[a] # Service[b]

C11_Witness ==
    \E c \in Callers :
        /\ Len(wire[c]) = 1
        /\ w.Insecure
        /\ call[c].op = "GetPastMarine"
        /\ entry[c] # <<>> /\ DOMAIN entry[c][1] # {}

\* C17: the steps of a call come in the order build query, fetch, decode,
\* inspect the error signal, return: xml.Unmarshal runs only after a fetch
\* that succeeded, an error made from the message is returned only for a
\* payload that decoded structurally, and a payload that carries an error
\* message and is structurally malformed yields the decode error.
DecodeErrorTypes == {"xml.SyntaxError", "strconv.NumError", "time.ParseError"}
C17_StepOrder ==
    \A c \in Callers :
        /\ ndecode[c] > 0 =>
             transportErr[c] = <<>> /\ Delivered(c) /\ Len(wire[c]) = 1
        /\ Len(wire[c]) > 0 =>
             /\ QueryGet(wire[c][1], "q") # {}
             /\ QueryGet(wire[c][1], "date_format") # {}
        /\ Returned(c) /\ ErrOf(c) # <<>>
           /\ ErrOf(c)[1].type = "errors.errorString" =>
             /\ ndecode[c] = 1
             /\ ~StructurallyBad(ReportType(call[c].op), text[c][1])
        /\ Returned(c) /\ Delivered(c) /\ CarriesError(text[c][1])
           /\ StructurallyBad(ReportType(call[c].op), text[c][1]) =>
             /\ ErrOf(c) # <<>>
             /\ ErrOf(c)[1].type \in DecodeErrorTypes

C17_Witness ==
    \E c \in Callers :
        /\ Returned(c) /\ Delivered(c)
        /\ text[c][1] = <<ErrNode(<<"quota">>), Broken>>
        /\ ReportOf(c) # <<>>
        /\ ReportOf(c)[1].Error = <<<<"quota">>>>

---------------------------------------------------------------------------
(* Texts and values the claims about Date, Time12 and TimeHMM speak of *)

Digit(k) == CHOOSE c \in DOMAIN DigitVal : DigitVal[c] = k
TwoDigits(n) == <<Digit(n \div 10), Digit(n % 10)>>
FourDigits(n) == TwoDigits(n \div 100) \o TwoDigits(n % 100)

\* the valid 12-hour times "H:MM AM|PM" and their hour of the day
Valid12 == (1..12) \X (0..59) \X {AM, PM}
Written12 == [v \in Valid12 |->
    FormatNat(v[1]) \o <<":">> \o TwoDigits(v[2]) \o <<" ">> \o v[3]]
Hour24(v) == IF v[3] = PM THEN (IF v[1] = 12 THEN 12 ELSE v[1] + 12)
             ELSE (IF v[1] = 12 THEN 0 ELSE v[1])
Decoded(type) == codec.type = type /\ codec.stage \in {"decoded", "printed"}
PrintedAs(type) == codec.type = type /\ codec.stage = "printed"

\* C12: a valid 12-hour time "H:MM AM|PM" decoded as a Time12 and printed
\* with String gives the 24-hour "HH:MM" of the usual conversion: 12 AM is
\* hour 00, 12 PM is hour 12, the other PM hours add 12.
C12_Time12To24 ==
    PrintedAs("Time12") =>
        \A v \in Valid12 :
            codec.content = Written12[v] =>
                /\ codec.err = <<>>
                /\ codec.str = TwoDigits(Hour24(v)) \o <<":">> \o TwoDigits(v[2])

C12_Witness ==
    /\ PrintedAs("Time12")
    /\ codec.content = <<"3", ":", "0", "4", " ", "P", "M">>
    /\ codec.str = <<"1", "5", ":", "0", "4">>

\* C13: a text that begins with "No " decodes as a Time12 without error to
\* the value -1, which is not the zero duration, and no valid 12-hour time
\* decodes to -1.
BeginsWithNo(s) == Len(s) >= 3 /\ s[1] = "N" /\ s[2] = "o" /\ s[3] = " "
C13_Sentinel ==
    Decoded("Time12") =>
        /\ BeginsWithNo(codec.content) =>
             /\ codec.err = <<>>
             /\ codec.val = [min |-> 0, ns |-> -1]
             /\ codec.val # [min |-> 0, ns |-> 0]
        /\ \A v \in Valid12 :
             codec.content = Written12[v] => codec.val # [min |-> 0, ns |-> -1]

C13_Witness ==
    /\ Decoded("Time12")
    /\ codec.content = <<"N", "o", " ", "m", "o", "o", "n", "r", "i", "s", "e">>
    /\ codec.val = [min |-> 0, ns |-> -1]
    /\ codec.err = <<>>

\* C14: an integer v in 0..2359 with v % 100 < 60, written in decimal,
\* decodes as a TimeHMM without error to v / 100 hours and v % 100 minutes,
\* and String prints it as the zero-padded "HH:MM".
ValidHMM == {v \in 0..2359 : v % 100 < 60}
WrittenHMM == [v \in ValidHMM |-> FormatNat(v)]
C14_TimeHMM ==
    PrintedAs("TimeHMM") =>
        \A v \in ValidHMM :
            codec.content = WrittenHMM[v] =>
                /\ codec.err = <<>>
                /\ codec.val = [min |-> ((v \div 100) * 60) + (v % 100), ns |-> 0]
                /\ codec.str = TwoDigits(v \div 100) \o <<":">> \o TwoDigits(v % 100)

C14_Witness ==
    /\ PrintedAs("TimeHMM")
    /\ codec.content = <<"9", "3", "0">>
    /\ codec.str = <<"0", "9", ":", "3", "0">>

\* C15: a text YYYY-MM-DD that names a day of the calendar decodes as a
\* Date that String prints as the same text, and the decoded value is the
\* midnight of that day.
RealDates == {v \in Years \X (1..12) \X (1..31) : v[3] <= DaysOfMonth(v[1], v[2])}
WrittenDate == [v \in RealDates |->
    FourDigits(v[1]) \o <<"-">> \o TwoDigits(v[2]) \o <<"-">> \o TwoDigits(v[3])]
C15_DateRoundTrip ==
    PrintedAs("Date") =>
        \A v \in RealDates :
            codec.content = WrittenDate[v] =>
                /\ codec.err = <<>>
                /\ codec.str = codec.content
                /\ codec.val.ns = 0
                /\ codec.val.min % (24 * 60) = 0

C15_Witness ==
    /\ PrintedAs("Date")
    /\ codec.content = <<"2", "0", "1", "6", "-", "0", "2", "-", "2", "9">>
    /\ codec.str = <<"2", "0", "1", "6", "-", "0", "2", "-", "2", "9">>

\* C18: a valid 12-hour time "H:MM AM|PM" decodes as a Time12 to the
\* duration since midnight, its hour of the day in hours plus MM minutes,
\* which is at least zero and less than 24 hours; "12:00 AM" decodes to the
\* zero duration.
C18_SinceMidnight ==
    Decoded("Time12") =>
        \A v \in Valid12 :
            codec.content = Written12[v] =>
                /\ codec.val = [min |-> (Hour24(v) * 60) + v[2], ns |-> 0]
                /\ 0 <= codec.val.min /\ codec.val.min < 24 * 60

---------------------------------------------------------------------------
(* The day entries of a report, and the days the payload lists *)

HasWeather(op) == "Weather" \in DOMAIN ReportType(op)

\* a day entry of the report of op: its temperature range and the times of
\* its samples (the samples of a Ski report carry no time)
DayOf(op, d) ==
    LET pre == IF op = "GetPastLocal" THEN "" ELSE "Weather."
        time == IF op = "GetPastLocal" THEN "Time" ELSE "Condition.Time"
    IN [MaxTemp |-> d[pre \o "TempRange.MaxTemp"],
        MaxTempF |-> d[pre \o "TempRange.MaxTempF"],
        MinTemp |-> d[pre \o "TempRange.MinTemp"],
        MinTempF |-> d[pre \o "TempRange.MinTempF"],
        Times |-> IF op = "GetSki" THEN <<>>
                  ELSE [i \in 1..Len(d.Condition) |-> d.Condition[i][time]]]
Days(c) ==
    LET days == ReportOf(c)[1].Weather
    IN [k \in 1..Len(days) |-> DayOf(call[c].op, days[k])]

\* a call that returned a report with day entries and no error
ReturnedDays(c) ==
    /\ Returned(c) /\ ReportOf(c) # <<>> /\ ErrOf(c) = <<>>
    /\ HasWeather(call[c].op)

\* the elements of the k-th day of a payload, and the texts of those with
\* a given path, in the order of the payload
ListedDay(data, k) ==
    LET marks == {i \in 1..Len(data) : data[i].path = "weather"}
        nth(n) == CHOOSE i \in marks : Cardinality({j \in marks : j < i}) = n - 1
        end == IF k < Cardinality(marks) THEN nth(k + 1) - 1 ELSE Len(data)
    IN SubSeq(data, nth(k) + 1, end)
ListedDays(data) == Cardinality({i \in 1..Len(data) : data[i].path = "weather"})
Listed(day, path) ==
    LET at == SelectSeq(day, LAMBDA l : l.path = path)
    IN [i \in 1..Len(at) |-> at[i].text]
ListedInt(day, path) == ParseInt(Listed(day, path)[1], IntSize).val

\* C19 as stated: in a report returned without error the samples of each
\* day are ordered by non-decreasing time of day, whatever the order of the
\* payload.
C19_SamplesByTime ==
    \A c \in Callers :
        ReturnedDays(c) =>
            \A k \in DOMAIN Days(c) :
                \A i \in 1..(Len(Days(c)[k].Times) - 1) :
                    Days(c)[k].Times[i].min <= Days(c)[k].Times[i + 1].min

\* C19, amended: in a report returned without error the samples of each day
\* are in the order in which the payload lists them, each with the time its
\* element gives; they are ordered by time only when the payload is.
C19_SamplesInPayloadOrder ==
    \A c \in Callers :
        ReturnedDays(c) =>
            /\ Len(Days(c)) = ListedDays(text[c][1])
            /\ \A k \in DOMAIN Days(c) :
                 LET times == Listed(ListedDay(text[c][1], k), "weather>hourly>time")
                 IN call[c].op # "GetSki" =>
                      Days(c)[k].Times =
                        [i \in 1..Len(times) |-> TimeHMMUnmarshalXML(times[i]).val]

C19_Witness ==
    \E c \in Callers :
        /\ ReturnedDays(c)
        /\ Len(Days(c)) = 2
        /\ Len(Days(c)[1].Times) = 2
        /\ Days(c)[1].Times[1].min > Days(c)[1].Times[2].min

\* C20 as stated: in every decoded day entry the Fahrenheit minimum and
\* maximum are the conversions of the Celsius minimum and maximum.
IsConversion(celsius, fahrenheit) ==
    LET diff == (5 * (fahrenheit - 32)) - (9 * celsius)
    IN -5 < diff /\ diff < 5
C20_FahrenheitIsConverted ==
    \A c \in Callers :
        ReturnedDays(c) =>
            \A k \in DOMAIN Days(c) :
                /\ IsConversion(Days(c)[k].MaxTemp, Days(c)[k].MaxTempF)
                /\ IsConversion(Days(c)[k].MinTemp, Days(c)[k].MinTempF)

\* C20, amended: in every decoded day entry each of the four temperature
\* fields holds the value of its own element of the payload (maxtempC,
\* maxtempF, mintempC, mintempF), decoded independently of the others, so
\* the two units agree only when the payload's values do.
C20_TemperaturesAsListed ==
    \A c \in Callers :
        ReturnedDays(c) =>
            \A k \in DOMAIN Days(c) :
                LET day == ListedDay(text[c][1], k)
                IN /\ Days(c)[k].MaxTemp = ListedInt(day, "weather>maxtempC")
                   /\ Days(c)[k].MaxTempF = ListedInt(day, "weather>maxtempF")
                   /\ Days(c)[k].MinTemp = ListedInt(day, "weather>mintempC")
                   /\ Days(c)[k].MinTempF = ListedInt(day, "weather>mintempF")

C20_Witness ==
    \E c \in Callers :
        /\ ReturnedDays(c)
        /\ Len(Days(c)) = 2
        /\ Days(c)[1].MaxTemp = 20
        /\ Days(c)[1].MaxTempF = 50
        /\ ~IsConversion(Days(c)[1].MaxTemp, Days(c)[1].MaxTempF)

---------------------------------------------------------------------------
(* Calls issued concurrently *)

\* the request the call of c sends when it runs alone: the client, the
\* operation, the location and the map as it was when the call was entered
RequestAlone(c) ==
    fetchURL(w, Service[call[c].op],
             MapSet(MapSet(entry[c][1], "q", call[c].location), "date_format", ""))

\* what the call of c returns when it runs alone and the transport fails
\* or delivers as it did
ResultAlone(c) ==
    IF transportErr[c] # <<>> THEN [report |-> <<>>, err |-> transportErr[c]]
    ELSE LET T == ReportType(call[c].op)
             r == Unmarshal(T, text[c][1], New(T))
         IN [report |-> <<r.o>>,
             err |-> IF r.err # <<>> THEN r.err
                     ELSE IF ErrorIsSet(r.o) THEN <<errorsNew(r.o.Error[1])>>
                     ELSE <<>>]

AsIfAlone(c) ==
    /\ Len(wire[c]) > 0 => wire[c] = <<RequestAlone(c)>>
    /\ Returned(c) => ret[c] = <<ResultAlone(c)>>

\* C16: however two or more calls on one client interleave, the request
\* each call sends and the result it returns are those of the call run
\* alone with its own location and options and the client's credentials,
\* and the key is never modified.  (Calls given a nil map are left out:
\* they do not get as far as a request.)
C16_CallsIndependent ==
    /\ w.Key = APIKey
    /\ \A c \in Callers : call[c].opt # NilMap => AsIfAlone(c)

\* the client is never written to, whatever the interleaving
ClientNeverModified == [][w' = w]_vars

\* calls that hold maps of their own are independent of one another
IndependentOnOwnMaps ==
    \A c \in Callers :
        /\ call[c].opt # NilMap
        /\ \A d \in Callers \ {c} : call[d].opt # call[c].opt
        => pc[c] # "fatal" /\ AsIfAlone(c)

---------------------------------------------------------------------------
(* What a report holds when decoding fails, and when a field is omitted *)

\* the first element of the payload that cannot be decoded, and the part of
\* the payload before it
FirstBad(T, data) ==
    CHOOSE i \in 1..Len(data) :
        BadAt(T, data, i) /\ \A j \in 1..(i - 1) : ~BadAt(T, data, j)
Preceding(T, data) == SubSeq(data, 1, FirstBad(T, data) - 1)

\* two structs of type T hold the same in every field, but for the field
\* that the element at path goes to; in a list whose last struct encloses
\* that element, the structs before the last are the same and the last
\* ones agree in the same way
RECURSIVE AgreeBut(_, _, _, _, _)
AgreeBut(T, a, b, prefix, path) ==
    \A f \in DOMAIN T :
        IF prefix \o T[f].tag = path THEN TRUE
        ELSE IF IsStructSlice(T[f].kind)
                /\ KindsAt(ElemType(T[f].kind), prefix \o T[f].tag \o ">", path) # {}
        THEN /\ Len(a[f]) = Len(b[f])
             /\ Len(a[f]) > 0
             /\ \A k \in 1..(Len(a[f]) - 1) : a[f][k] = b[f][k]
             /\ AgreeBut(ElemType(T[f].kind), a[f][Len(a[f])], b[f][Len(b[f])],
                         prefix \o T[f].tag \o ">", path)
        ELSE a[f] = b[f]

InitDecode ==
    /\ InitFor(SeqCallers)
    /\ ~w.Insecure
    /\ \A c \in Callers : heap[c] = EmptyMap

GetCallOnce(c) == GetCallOf(c, Ops, {NilMap, MapOf(c)}, 1)

StepDecode(c) ==
    /\ \/ GetCallOnce(c)
       \/ GetSetQ(c)
       \/ GetSetDateFormat(c)
       \/ fetchGet(c)
       \/ fetchReadAll(c)
       \/ GetFetchErr(c)
       \/ GetUnmarshal(c)
       \/ GetDecodeErr(c)
       \/ GetAPIErr(c)
       \/ GetReturn(c)
    /\ UNCHANGED codec

NextDecode == \E c \in SeqCallers : StepDecode(c)

SpecDecode == InitDecode /\ [][NextDecode]_vars

\* the plain types, and the texts that say zero, or nothing, in each
PlainKinds == {"int", "uint", "float64", "string"}
ZeroTexts(kind) ==
    CASE kind = "string" -> {<<>>}
      [] kind = "float64" -> {<<>>, <<"0">>, <<"0", ".", "0">>}
      [] OTHER -> {<<>>, <<"0">>}

\* the plain fields that a payload omits: those of the report, to be given
\* at the head of the payload, and those of each day entry, to be given
\* next to the opening of the entry
OmittedOfReport(T, data) ==
    {[at |-> 0, field |-> f, path |-> T[f].tag, kind |-> T[f].kind] :
        f \in {g \in DOMAIN T : /\ T[g].kind \in PlainKinds
                                /\ \A i \in 1..Len(data) : data[i].path # T[g].tag}}
OmittedOfDays(T, data) ==
    IF "Weather" \notin DOMAIN T THEN {}
    ELSE LET E == ElemType(T["Weather"].kind)
             days == 1..ListedDays(data)
             open(k) == CHOOSE i \in 1..Len(data) :
                            /\ data[i].path = "weather"
                            /\ Cardinality({j \in 1..i : data[j].path = "weather"}) = k
         IN {[at |-> open(q[1]), day |-> q[1], field |-> q[2],
              path |-> "weather>" \o E[q[2]].tag, kind |-> E[q[2]].kind] :
               q \in {p \in days \X DOMAIN E :
                        /\ E[p[2]].kind \in PlainKinds
                        /\ Listed(ListedDay(data, p[1]), "weather>" \o E[p[2]].tag) = <<>>}}
Given(data, om, t) ==
    SubSeq(data, 1, om.at) \o <<Leaf(om.path, t)>> \o SubSeq(data, om.at + 1, Len(data))

\* C22: a payload that omits a plain field (integer, unsigned integer,
\* floating point, string) decodes with that field at the zero value of its
\* type, and to the same report and the same error as the payload that
\* gives the field as zero or as empty.
C22_OmittedIsZero ==
    \A c \in Callers :
        Returned(c) /\ Delivered(c) =>
            LET T == ReportType(call[c].op)
                data == text[c][1]
                got == [o |-> o[c][1], err |-> err[c]]
            IN /\ \A om \in OmittedOfReport(T, data) :
                    /\ got.o[om.field] = Zero(om.kind)
                    /\ \A t \in ZeroTexts(om.kind) :
                         Unmarshal(T, Given(data, om, t), New(T)) = got
               /\ \A om \in OmittedOfDays(T, data) :
                    /\ om.day <= Len(got.o.Weather)
                       => got.o.Weather[om.day][om.field] = Zero(om.kind)
                    /\ \A t \in ZeroTexts(om.kind) :
                         Unmarshal(T, Given(data, om, t), New(T)) = got

C22_Witness ==
    \E c \in Callers :
        /\ Returned(c) /\ Delivered(c) /\ ErrOf(c) = <<>>
        /\ call[c].op = "GetLocal"
        /\ text[c][1] \in {WeatherPayload(v) : v \in DayValues}
        /\ \E om \in OmittedOfReport(Local, text[c][1]) :
             om.kind = "uint" /\ ReportOf(c)[1][om.field] = 0
        /\ \E om \in OmittedOfReport(Local, text[c][1]) :
             om.kind = "float64" /\ ReportOf(c)[1][om.field] = 0
        /\ \E om \in OmittedOfReport(Local, text[c][1]) :
             om.kind = "string" /\ ReportOf(c)[1][om.field] = <<>>
        /\ \E om \in OmittedOfDays(Local, text[c][1]) :
             om.kind = "float64" /\ om.day = 2
             /\ ReportOf(c)[1].Weather[2][om.field] = 0

---------------------------------------------------------------------------
(* TimeHMM as a time of day; the nil options map *)

\* C23: a TimeHMM that decodes without error is a time of day, less than
\* 24 hours with a minute part below 60; a number that is no clock time,
\* such as 2400, 1299 or 4095, is rejected with an error.
NoClockTimes == {<<"2", "4", "0", "0">>, <<"1", "2", "9", "9">>, <<"4", "0", "9", "5">>}
C23_TimeHMMIsTimeOfDay ==
    Decoded("TimeHMM") =>
        /\ codec.err = <<>> =>
             /\ 0 <= codec.val.min /\ codec.val.min < 24 * 60
             /\ IsDigits(codec.content) => DecVal(codec.content) % 100 < 60
        /\ codec.content \in NoClockTimes => codec.err # <<>>

\* C24: whatever the options argument, nil included, a call ends by
\* returning a report and an error; it does not abort before the request.
C24_NilOptionsReturn ==
    \A c \in Callers :
        call[c].op # "none" /\ call[c].opt = NilMap =>
            pc[c] \in {"setq", "setdf", "fetch", "readall", "fetched",
                       "decoded", "done"}

====
